---- MODULE Spec2Model ----
(***************************************************************************)
(* Model of the upload backend (src/index.js, current revision, lines      *)
(* 1-384): the POST /upload handler, the lazily initialised Backblaze      *)
(* session handle, the video duration extractor and GET /course/:id.       *)
(* The identity verifier, the object store, Firestore and ffprobe are      *)
(* external collaborators: each of their calls is one step whose outcome   *)
(* is chosen nondeterministically among the outcomes the call can have.    *)
(* A handler runs without interruption between two awaits, so one action   *)
(* is the code between one await and the next.                             *)
(***************************************************************************)
EXTENDS Integers, Sequences, FiniteSets, TLC

(***************************************************************************)
(* Bounds                                                                  *)
(***************************************************************************)
\* number of request slots served concurrently
NumReqs == 2

Reqs == 1..NumReqs

(***************************************************************************)
(* JavaScript values                                                       *)
(***************************************************************************)
\* the value of a missing form field, header or property
Undefined == "undefined"

\* !v for the values that occur here: undefined and the empty string are falsy
Falsy(v) == v = Undefined \/ v = ""

(***************************************************************************)
(* File names: sequences of one-character strings                          *)
(***************************************************************************)
RECURSIVE Join(_)
\* the string spelled by a sequence of characters
Join(cs) == IF cs = <<>> THEN "" ELSE Head(cs) \o Join(Tail(cs))

\* String.prototype.toLowerCase on one character
LowerChar(c) ==
    CASE c = "A" -> "a" [] c = "C" -> "c" [] c = "D" -> "d" [] c = "F" -> "f"
      [] c = "G" -> "g" [] c = "I" -> "i" [] c = "J" -> "j" [] c = "L" -> "l"
      [] c = "M" -> "m" [] c = "N" -> "n" [] c = "O" -> "o" [] c = "P" -> "p"
      [] c = "V" -> "v" [] c = "X" -> "x"
      [] OTHER -> c

\* String.prototype.toLowerCase
ToLowerCase(cs) == [i \in 1..Len(cs) |-> LowerChar(cs[i])]

\* index of the last "." of a name, 0 when there is none
LastDot(cs) ==
    LET dots == {i \in 1..Len(cs) : cs[i] = "."}
    IN  IF dots = {} THEN 0 ELSE CHOOSE i \in dots : \A j \in dots : j <= i

\* path.extname of a name without directory separators: from the last "."
\* to the end; empty when there is no ".", when the only "." is the first
\* character, and for the name ".."
ExtName(cs) ==
    LET d == LastDot(cs)
    IN  IF d = 0 \/ d = 1 \/ cs = <<".", ".">> THEN <<>>
        ELSE SubSeq(cs, d, Len(cs))

\* path.extname(file.originalname).toLowerCase()
FileExtension(originalname) == Join(ToLowerCase(ExtName(originalname)))

VideoExtensions == {".mp4", ".mov", ".avi"}
PdfExtensions == {".pdf"}
ThumbnailExtensions == {".jpg", ".jpeg", ".png"}
AllowedTypes == {"video", "pdf", "thumbnail"}

\* one whitelist shared by every type
WhitelistShared(type) == VideoExtensions \cup PdfExtensions \cup ThumbnailExtensions

\* the whitelist the handler applies to a type of AllowedTypes
Whitelist(type) ==
    CASE type = "video" -> VideoExtensions
      [] type = "pdf" -> PdfExtensions
      [] OTHER -> ThumbnailExtensions

\* key prefixes without the folder of the type, as the two-file revisions
\* name their objects
KeyPrefixFlat(type) ==
    CASE type = "video" -> "vid_"
      [] type = "pdf" -> "pdf_"
      [] OTHER -> "thumb_"

\* the key prefix the handler gives a type of AllowedTypes
KeyPrefix(type) ==
    CASE type = "video" -> "videos/vid_"
      [] type = "pdf" -> "pdfs/pdf_"
      [] OTHER -> "thumbnails/thumb_"

\* uuidv4(): a fresh identifier for every request
Uuid(r) == "uuid" \o ToString(r)

\* the storage key of a request
FilePath(type, uuid, fileExtension) == KeyPrefix(type) \o uuid \o fileExtension

(***************************************************************************)
(* getVideoDuration                                                        *)
(***************************************************************************)
\* what fs.writeFile and ffprobe can do to one extraction: the temp file
\* cannot be written, ffprobe reports an error, or ffprobe delivers metadata
\* whose format.duration is missing, is not a number ("N/A"), or is a number
\* (given in tenths of a second)
DurationTenths == {0, 5, 599, 615, 36000, 372590}

ProbeOutcomes ==
    {[kind |-> k, tenths |-> 0] : k \in {"writeFail", "probeErr", "noDuration", "nanDuration"}}
    \cup {[kind |-> "number", tenths |-> t] : t \in DurationTenths}

\* the two outcomes used where requests run concurrently
ConcProbeOutcomes == {[kind |-> "probeErr", tenths |-> 0], [kind |-> "number", tenths |-> 615]}

\* n.toString().padStart(2, '0')
Pad2(n) == IF n < 10 THEN "0" \o ToString(n) ELSE ToString(n)

\* the formatting of a number of seconds given in tenths
FormatDuration(tenths) ==
    LET duration == tenths \div 10
        hours    == duration \div 3600
        minutes  == (duration % 3600) \div 60
        seconds  == duration % 60
    IN  IF hours > 0
        THEN Pad2(hours) \o ":" \o Pad2(minutes) \o ":" \o Pad2(seconds)
        ELSE Pad2(minutes) \o ":" \o Pad2(seconds)

\* an extractor that formats whatever ffprobe left it with
getVideoDurationUnchecked(o) ==
    IF o.kind = "number" /\ o.tenths # 0 THEN FormatDuration(o.tenths) ELSE "NaN:NaN"

\* the value the promise of getVideoDuration resolves with
getVideoDuration(o) ==
    IF o.kind \in {"writeFail", "probeErr"} THEN "00:00"
    ELSE IF o.kind \in {"noDuration", "nanDuration"} \/ o.tenths = 0 THEN "00:00"
    ELSE FormatDuration(o.tenths)

\* the handler's own guard on the extractor's result
ServerDuration(result) == IF Falsy(result) THEN "00:00" ELSE result

(***************************************************************************)
(* Requests                                                                *)
(***************************************************************************)
\* the Authorization header: absent, or a scheme followed by credentials
NoHeader == <<>>
Headers == {NoHeader, <<"Basic ", "abc">>, <<"Bearer ", "tok_u1">>, <<"Bearer ", "tok_bad">>}

\* req.headers.authorization?.split('Bearer ')[1]
IdToken(authorization) ==
    IF authorization = NoHeader THEN Undefined
    ELSE IF authorization[1] = "Bearer " THEN authorization[2]
    ELSE Undefined

\* admin.auth().verifyIdToken: the uid of a token the identity provider
\* accepts, Undefined for a token it rejects
TokenUid(idToken) == IF idToken = "tok_u1" THEN "u1" ELSE Undefined

NoFile == [present |-> FALSE, originalname |-> <<>>]
File(cs) == [present |-> TRUE, originalname |-> cs]

FileNames ==
    { <<"c", ".", "m", "p", "4">>, <<"C", ".", "M", "O", "V">>, <<"c", ".", "a", "v", "i">>,
      <<"d", ".", "p", "d", "f">>, <<"p", ".", "j", "p", "g">>, <<"p", ".", "j", "p", "e", "g">>,
      <<"p", ".", "P", "n", "g">>, <<"n", ".", "t", "x", "t">>, <<".", "m", "p", "4">>,
      <<"m", "p", "4">> }

Courses == {"c1", "c2"}
Sections == {"default", "s1"}
ContentIds == {"x1"}

\* every shape of request body the validation distinguishes
AllInputs ==
    [ authorization : Headers,
      type          : AllowedTypes \cup {Undefined, "audio"},
      courseId      : {Undefined} \cup Courses,
      uploader      : {Undefined, "u1", "u2"},
      name          : {Undefined},
      sectionId     : {Undefined, "s1"},
      contentId     : {Undefined, "x1"},
      file          : {NoFile} \cup {File(cs) : cs \in FileNames} ]

\* well-formed requests of the authenticated user, used where requests run
\* concurrently: a video and a pdf for the same content document, and a
\* thumbnail, for a course with and without a record, and a request whose
\* token the identity provider rejects
WellFormed(type, courseId, cs) ==
    [ authorization |-> <<"Bearer ", "tok_u1">>, type |-> type, courseId |-> courseId,
      uploader |-> "u1", name |-> Undefined, sectionId |-> "s1",
      contentId |-> IF type = "thumbnail" THEN Undefined ELSE "x1", file |-> File(cs) ]

ConcInputs ==
    { WellFormed("video", "c1", <<"c", ".", "m", "p", "4">>),
      WellFormed("pdf", "c1", <<"d", ".", "p", "d", "f">>),
      WellFormed("thumbnail", "c1", <<"p", ".", "P", "n", "g">>),
      WellFormed("thumbnail", "c2", <<"p", ".", "j", "p", "g">>),
      [WellFormed("pdf", "c1", <<"d", ".", "p", "d", "f">>)
          EXCEPT !.authorization = <<"Bearer ", "tok_bad">>] }

NoReq ==
    [ authorization |-> NoHeader, type |-> Undefined, courseId |-> Undefined,
      uploader |-> Undefined, name |-> Undefined, sectionId |-> Undefined,
      contentId |-> Undefined, file |-> NoFile ]

\* destructuring defaults of the request body
Name(q) == IF q.name = Undefined THEN "Untitled" ELSE q.name
SectionId(q) == IF q.sectionId = Undefined THEN "default" ELSE q.sectionId

(***************************************************************************)
(* Responses                                                               *)
(***************************************************************************)
NoResp ==
    [ status |-> 0, error |-> Undefined, details |-> Undefined, fileUrl |-> Undefined,
      thumbnailUrl |-> Undefined, duration |-> Undefined ]

ErrorResp(status, error, details) ==
    [NoResp EXCEPT !.status = status, !.error = error, !.details = details]

\* the 200 body: thumbnailUrl for a thumbnail, fileUrl otherwise, and the
\* duration for a video
SuccessResp(type, filePath, serverDuration) ==
    [NoResp EXCEPT !.status = 200,
                   !.fileUrl = IF type = "thumbnail" THEN Undefined ELSE filePath,
                   !.thumbnailUrl = IF type = "thumbnail" THEN filePath ELSE Undefined,
                   !.duration = IF type = "video" THEN serverDuration ELSE Undefined]

(***************************************************************************)
(* Validation (between token verification and the first side effect)       *)
(***************************************************************************)
\* a required-field check that wants the content id for every type
MissingRequiredContentId(q) ==
    \/ Falsy(q.type) \/ Falsy(q.courseId) \/ Falsy(q.uploader) \/ ~q.file.present
    \/ Falsy(q.contentId)

\* the required-field check
MissingRequired(q) ==
    \/ Falsy(q.type) \/ Falsy(q.courseId) \/ Falsy(q.uploader) \/ ~q.file.present
    \/ (q.type # "thumbnail" /\ Falsy(q.contentId))

\* a validation without the uploader check
ValidateNoUploaderCheck(q, userId) ==
    IF MissingRequired(q)
    THEN ErrorResp(400, "Missing required fields or file", Undefined)
    ELSE IF q.type \notin AllowedTypes
    THEN ErrorResp(400, "Invalid file type", Undefined)
    ELSE IF FileExtension(q.file.originalname) \notin Whitelist(q.type)
    THEN ErrorResp(400, "Invalid format", Undefined)
    ELSE NoResp

\* the response of the first failing check, NoResp when every check passes
Validate(q, userId) ==
    IF MissingRequired(q)
    THEN ErrorResp(400, "Missing required fields or file", Undefined)
    ELSE IF q.uploader # userId
    THEN ErrorResp(403, "Forbidden", "Uploader does not match authenticated user")
    ELSE IF q.type \notin AllowedTypes
    THEN ErrorResp(400, "Invalid file type", Undefined)
    ELSE IF FileExtension(q.file.originalname) \notin Whitelist(q.type)
    THEN CASE q.type = "video" ->
                ErrorResp(400, "Invalid video format", "Only MP4, MOV, or AVI allowed")
           [] q.type = "pdf" ->
                ErrorResp(400, "Invalid file format", "Only PDF allowed")
           [] OTHER ->
                ErrorResp(400, "Invalid thumbnail format", "Only JPG or PNG allowed")
    ELSE NoResp

(***************************************************************************)
(* Firestore                                                               *)
(***************************************************************************)
\* the course and section documents that exist; the backend never creates
\* one (a content document set under a missing parent does not create the
\* parent), so they are the ones the client application created: course c1
\* with its section s1, and no record for course c2
CourseDocs == {"c1"}
SectionDocs == {<<"c1", "s1">>}

ContentPaths == Courses \X Sections \X ContentIds

NoDoc ==
    [ exists |-> FALSE, title |-> Undefined, type |-> Undefined, backblazePath |-> Undefined,
      uploader |-> Undefined, duration |-> Undefined ]

\* the contentData the handler sets (order is never sent by the requests
\* modelled here; uploadedAt is a server timestamp)
ContentData(q, filePath, serverDuration) ==
    [ exists |-> TRUE, title |-> Name(q), type |-> q.type, backblazePath |-> filePath,
      uploader |-> q.uploader,
      duration |-> IF q.type = "video" THEN serverDuration ELSE Undefined ]

(***************************************************************************)
(* State                                                                   *)
(***************************************************************************)
VARIABLES
    b2,            \* the module-level session handle: "null" or "handle"
    b2Authorized,  \* whether an authorize() of the handle has succeeded
    startup,       \* the initializeB2() of module load: "authorizing", "ok", "failed"
    pc,            \* per request: the await the handler is suspended at
    req,           \* per request: headers, body and file
    loc,           \* per request: userId, filePath, fileId, serverDuration
    resp,          \* per request: the response sent
    calls,         \* per request: the external calls issued so far
    bucket,        \* the object store: the file versions stored
    thumbnailUrl,  \* Firestore: thumbnailUrl of each course document
    contents,      \* Firestore: the content documents
    lastGet,       \* the last response of GET /course/:id
    fileUrl,       \* the request of GET /file-url: position, inputs, calls, response
    twoFile        \* the request of the two-file POST /upload of the earlier revisions

vars ==
    << b2, b2Authorized, startup, pc, req, loc, resp, calls, bucket, thumbnailUrl,
       contents, lastGet, fileUrl, twoFile >>

\* the routes that share nothing with POST /upload but the session handle
otherRoutes == << fileUrl, twoFile >>

NoLoc ==
    [ userId |-> Undefined, filePath |-> Undefined, fileId |-> Undefined,
      serverDuration |-> Undefined ]

NoCalls ==
    [ init |-> "none", extract |-> FALSE, probe |-> [kind |-> "none", tenths |-> 0],
      getUploadUrl |-> FALSE, handleAuthorized |-> FALSE, uploadFile |-> FALSE,
      stored |-> FALSE,
      fsWrite |-> "none", fsResult |-> "none", written |-> Undefined,
      blobAtWrite |-> FALSE, deletes |-> {} ]

\* the arguments of b2.getDownloadAuthorization, before the call is made
NoArgs == [fileNamePrefix |-> Undefined, validDurationInSeconds |-> 0]

NoFileUrl ==
    [ pc |-> "idle", authorization |-> NoHeader, file |-> Undefined,
      verify |-> "none", init |-> "none", authorize |-> "none",
      authDownloadUrl |-> Undefined,
      getDownloadAuthorization |-> "none", args |-> NoArgs,
      status |-> 0, error |-> Undefined, details |-> Undefined, url |-> Undefined ]

\* the two-file POST /upload: the revision deployed, the position of the
\* handler, the request, the response (status line, body, what was written to
\* the stream before and after it was ended), the two progress timers, and the
\* object-store calls
NoTwoFile ==
    [ revision |-> "progress", pc |-> "idle",
      authorization |-> NoHeader, video |-> FALSE, thumbnail |-> FALSE,
      name |-> Undefined, price |-> Undefined, description |-> Undefined,
      checked |-> FALSE,
      headersSent |-> FALSE, ended |-> FALSE, status |-> 0,
      error |-> Undefined, details |-> Undefined,
      videoUrl |-> Undefined, thumbnailUrl |-> Undefined,
      written |-> <<>>, afterEnd |-> <<>>,
      videoInterval |-> FALSE, videoProgress |-> 0,
      thumbnailInterval |-> FALSE, thumbnailProgress |-> 0,
      getUploadUrl |-> {}, uploadFile |-> {}, stored |-> {} ]

NoGet == [course |-> Undefined, status |-> 0, found |-> {}, after |-> {}]

\* no request received, nothing stored
InitRoutes ==
    /\ b2Authorized = FALSE
    /\ pc = [r \in Reqs |-> "idle"]
    /\ req = [r \in Reqs |-> NoReq]
    /\ loc = [r \in Reqs |-> NoLoc]
    /\ resp = [r \in Reqs |-> NoResp]
    /\ calls = [r \in Reqs |-> NoCalls]
    /\ bucket = {}
    /\ thumbnailUrl = [c \in CourseDocs |-> Undefined]
    /\ contents = [p \in ContentPaths |-> NoDoc]
    /\ lastGet = NoGet
    /\ fileUrl = NoFileUrl

\* module load: initializeB2() runs up to its first await before the server
\* listens, so the handle is either constructed and being authorized, or the
\* constructor threw and the handle is still null
Init ==
    /\ \/ b2 = "handle" /\ startup = "authorizing"
       \/ b2 = "null" /\ startup = "failed"
    /\ InitRoutes
    /\ twoFile = NoTwoFile

\* a deployment of one of the two-file revisions: the progress-streaming one
\* loads as above; the earlier one constructs the handle at module load and
\* authorizes it in every request
InitT ==
    \/ Init
    \/ /\ b2 = "handle" /\ startup = "none"
       /\ InitRoutes
       /\ twoFile = [NoTwoFile EXCEPT !.revision = "earlier"]

(***************************************************************************)
(* initializeB2 at module load                                             *)
(***************************************************************************)
\* the b2.authorize() started at module load resolves
StartupAuthorized ==
    /\ startup = "authorizing"
    /\ startup' = "ok"
    /\ b2Authorized' = TRUE
    /\ UNCHANGED << otherRoutes, b2, pc, req, loc, resp, calls, bucket, thumbnailUrl, contents, lastGet >>

\* the b2.authorize() started at module load rejects: the error is logged
\* and the handle stays in place, unauthorized
StartupAuthorizeFailed ==
    /\ startup = "authorizing"
    /\ startup' = "failed"
    /\ UNCHANGED << otherRoutes, b2, b2Authorized, pc, req, loc, resp, calls, bucket, thumbnailUrl,
                    contents, lastGet >>

(***************************************************************************)
(* POST /upload                                                            *)
(***************************************************************************)
\* res.status(..).json(..): the handler returns
Respond(r, response) ==
    /\ pc' = [pc EXCEPT ![r] = "done"]
    /\ resp' = [resp EXCEPT ![r] = response]

\* the outer catch of the handler
UploadFailed(r, message) == Respond(r, ErrorResp(500, "Upload failed", message))

\* a handler that starts the duration extraction of a video before it
\* validates the request
ProceedExtractFirst(r, userId, authorized) ==
    LET q == req[r]
        v == Validate(q, userId)
        filePath == FilePath(q.type, Uuid(r), FileExtension(q.file.originalname))
    IN  IF v # NoResp
        THEN /\ Respond(r, v)
             /\ loc' = [loc EXCEPT ![r].userId = userId]
             /\ calls' = [calls EXCEPT ![r].extract = (q.type = "video")]
        ELSE /\ loc' = [loc EXCEPT ![r].userId = userId, ![r].filePath = filePath]
             /\ UNCHANGED resp
             /\ IF q.type = "video"
                THEN /\ pc' = [pc EXCEPT ![r] = "getVideoDuration"]
                     /\ calls' = [calls EXCEPT ![r].extract = TRUE]
                ELSE /\ pc' = [pc EXCEPT ![r] = "getUploadUrl"]
                     /\ calls' = [calls EXCEPT ![r].getUploadUrl = TRUE,
                                               ![r].handleAuthorized = authorized]

\* from the session-handle check to the next await: the validation, the key
\* derivation, and the start of the duration extraction (video) or of
\* b2.getUploadUrl (pdf, thumbnail) on the handle as it is then
Proceed(r, userId, authorized) ==
    LET q == req[r]
        v == Validate(q, userId)
        filePath == FilePath(q.type, Uuid(r), FileExtension(q.file.originalname))
    IN  IF v # NoResp
        THEN /\ Respond(r, v)
             /\ loc' = [loc EXCEPT ![r].userId = userId]
             /\ UNCHANGED calls
        ELSE /\ loc' = [loc EXCEPT ![r].userId = userId, ![r].filePath = filePath]
             /\ UNCHANGED resp
             /\ IF q.type = "video"
                THEN /\ pc' = [pc EXCEPT ![r] = "getVideoDuration"]
                     /\ calls' = [calls EXCEPT ![r].extract = TRUE]
                ELSE /\ pc' = [pc EXCEPT ![r] = "getUploadUrl"]
                     /\ calls' = [calls EXCEPT ![r].getUploadUrl = TRUE,
                                               ![r].handleAuthorized = authorized]

\* a request arrives: the handler extracts the bearer token, answers 401
\* when there is none, and otherwise calls verifyIdToken
Dispatch(r, inputs) ==
    /\ pc[r] = "idle"
    /\ \E q \in inputs :
         /\ req' = [req EXCEPT ![r] = q]
         /\ IF Falsy(IdToken(q.authorization))
            THEN Respond(r, ErrorResp(401, "Unauthorized: Missing ID token", Undefined))
            ELSE pc' = [pc EXCEPT ![r] = "verifyIdToken"] /\ UNCHANGED resp
    /\ UNCHANGED << otherRoutes, b2, b2Authorized, startup, loc, calls, bucket, thumbnailUrl, contents,
                    lastGet >>

\* verifyIdToken rejects: the outer catch answers
VerifyRejected(r) ==
    /\ pc[r] = "verifyIdToken"
    /\ TokenUid(IdToken(req[r].authorization)) = Undefined
    /\ UploadFailed(r, "verifyIdToken")
    /\ UNCHANGED << otherRoutes, b2, b2Authorized, startup, req, loc, calls, bucket, thumbnailUrl,
                    contents, lastGet >>

\* verifyIdToken resolves and the handle is not null: no initialisation
VerifyAccepted(r) ==
    /\ pc[r] = "verifyIdToken"
    /\ TokenUid(IdToken(req[r].authorization)) # Undefined
    /\ b2 # "null"
    /\ Proceed(r, TokenUid(IdToken(req[r].authorization)), b2Authorized)
    /\ UNCHANGED << otherRoutes, b2, b2Authorized, startup, req, bucket, thumbnailUrl, contents, lastGet >>

\* verifyIdToken resolves and the handle is null: initializeB2() constructs
\* the handle and awaits its authorize()
LazyInitStart(r) ==
    /\ pc[r] = "verifyIdToken"
    /\ TokenUid(IdToken(req[r].authorization)) # Undefined
    /\ b2 = "null"
    /\ b2' = "handle"
    /\ pc' = [pc EXCEPT ![r] = "initializeB2"]
    /\ loc' = [loc EXCEPT ![r].userId = TokenUid(IdToken(req[r].authorization))]
    /\ calls' = [calls EXCEPT ![r].init = "started"]
    /\ UNCHANGED << otherRoutes, b2Authorized, startup, req, resp, bucket, thumbnailUrl, contents,
                    lastGet >>

\* verifyIdToken resolves, the handle is null and the constructor throws
\* again: initializeB2 rethrows and the outer catch answers
LazyInitConstructorThrows(r) ==
    /\ pc[r] = "verifyIdToken"
    /\ TokenUid(IdToken(req[r].authorization)) # Undefined
    /\ b2 = "null"
    /\ UploadFailed(r, "BackblazeB2")
    /\ loc' = [loc EXCEPT ![r].userId = TokenUid(IdToken(req[r].authorization))]
    /\ calls' = [calls EXCEPT ![r].init = "failed"]
    /\ UNCHANGED << otherRoutes, b2, b2Authorized, startup, req, bucket, thumbnailUrl, contents,
                    lastGet >>

\* the authorize() of a lazy initialisation resolves
LazyAuthorized(r) ==
    /\ pc[r] = "initializeB2"
    /\ b2Authorized' = TRUE
    /\ Proceed(r, loc[r].userId, TRUE)
    /\ UNCHANGED << otherRoutes, b2, startup, req, bucket, thumbnailUrl, contents, lastGet >>

\* the authorize() of a lazy initialisation rejects: initializeB2 rethrows
LazyAuthorizeFailed(r) ==
    /\ pc[r] = "initializeB2"
    /\ UploadFailed(r, "authorize")
    /\ calls' = [calls EXCEPT ![r].init = "failed"]
    /\ UNCHANGED << otherRoutes, b2, b2Authorized, startup, req, loc, bucket, thumbnailUrl,
                    contents, lastGet >>

\* an extractor whose promise is left unsettled when the temporary file
\* cannot be written
DurationExtractedUnsettled(r, outcomes) ==
    /\ pc[r] = "getVideoDuration"
    /\ \E o \in outcomes :
         IF o.kind = "writeFail"
         THEN /\ pc' = [pc EXCEPT ![r] = "unsettled"]
              /\ calls' = [calls EXCEPT ![r].probe = o]
              /\ UNCHANGED loc
         ELSE /\ pc' = [pc EXCEPT ![r] = "getUploadUrl"]
              /\ loc' = [loc EXCEPT ![r].serverDuration = ServerDuration(getVideoDuration(o))]
              /\ calls' = [calls EXCEPT ![r].probe = o, ![r].getUploadUrl = TRUE,
                                        ![r].handleAuthorized = b2Authorized]
    /\ UNCHANGED << otherRoutes, b2, b2Authorized, startup, req, resp, bucket, thumbnailUrl, contents,
                    lastGet >>

\* getVideoDuration resolves (it never rejects); the handler then calls
\* b2.getUploadUrl
DurationExtracted(r, outcomes) ==
    /\ pc[r] = "getVideoDuration"
    /\ \E o \in outcomes :
         /\ loc' = [loc EXCEPT ![r].serverDuration = ServerDuration(getVideoDuration(o))]
         /\ calls' = [calls EXCEPT ![r].probe = o, ![r].getUploadUrl = TRUE,
                                   ![r].handleAuthorized = b2Authorized]
    /\ pc' = [pc EXCEPT ![r] = "getUploadUrl"]
    /\ UNCHANGED << otherRoutes, b2, b2Authorized, startup, req, resp, bucket, thumbnailUrl, contents,
                    lastGet >>

\* an inner catch that logs and falls through to the metadata write
BackblazeUploadFailedFallsThrough(r, message) ==
    /\ pc' = [pc EXCEPT ![r] = "firestore"]
    /\ calls' = [calls EXCEPT ![r].fsWrite = IF req[r].type = "thumbnail" THEN "update" ELSE "set"]
    /\ UNCHANGED << loc, resp >>

\* the inner catch around the object-store upload
BackblazeUploadFailed(r, message) ==
    /\ Respond(r, ErrorResp(500, "Backblaze upload failed", message))
    /\ UNCHANGED << loc, calls >>

\* b2.getUploadUrl resolves, which takes a handle that was authorized when
\* the call was made; the handler then calls b2.uploadFile
GetUploadUrlOk(r) ==
    /\ pc[r] = "getUploadUrl"
    /\ calls[r].handleAuthorized
    /\ pc' = [pc EXCEPT ![r] = "uploadFile"]
    /\ calls' = [calls EXCEPT ![r].uploadFile = TRUE]
    /\ UNCHANGED << otherRoutes, b2, b2Authorized, startup, req, loc, resp, bucket, thumbnailUrl,
                    contents, lastGet >>

\* b2.getUploadUrl rejects (always on a handle that is not authorized)
GetUploadUrlFailed(r) ==
    /\ pc[r] = "getUploadUrl"
    /\ BackblazeUploadFailed(r, "getUploadUrl")
    /\ UNCHANGED << otherRoutes, b2, b2Authorized, startup, req, bucket, thumbnailUrl, contents, lastGet >>

\* the metadata write the handler issues after the upload
FirestoreCall(q) == IF q.type = "thumbnail" THEN "update" ELSE "set"

\* the file version b2.uploadFile stores for a request
StoredVersion(r) == [fileName |-> loc[r].filePath, fileId |-> "fid_" \o Uuid(r)]

\* a handler that issues the metadata write without awaiting the upload
UploadFileNotAwaited(r) ==
    /\ pc[r] = "uploadFile"
    /\ loc' = [loc EXCEPT ![r].fileId = StoredVersion(r).fileId]
    /\ calls' = [calls EXCEPT ![r].fsWrite = IF req[r].type = "thumbnail" THEN "update" ELSE "set"]
    /\ pc' = [pc EXCEPT ![r] = "firestore"]
    /\ UNCHANGED << otherRoutes, b2, b2Authorized, startup, req, resp, bucket, thumbnailUrl, contents,
                    lastGet >>

\* b2.uploadFile resolves: the blob is stored under the key; the response
\* carries the file version id, or lacks it; the handler then issues the
\* metadata write
UploadFileOk(r) ==
    /\ pc[r] = "uploadFile"
    /\ bucket' = bucket \cup {StoredVersion(r)}
    /\ \E fileId \in {StoredVersion(r).fileId, Undefined} :
         loc' = [loc EXCEPT ![r].fileId = fileId]
    /\ calls' = [calls EXCEPT ![r].stored = TRUE, ![r].fsWrite = FirestoreCall(req[r])]
    /\ pc' = [pc EXCEPT ![r] = "firestore"]
    /\ UNCHANGED << otherRoutes, b2, b2Authorized, startup, req, resp, thumbnailUrl, contents, lastGet >>

\* b2.uploadFile rejects
UploadFileFailed(r) ==
    /\ pc[r] = "uploadFile"
    /\ BackblazeUploadFailed(r, "uploadFile")
    /\ UNCHANGED << otherRoutes, b2, b2Authorized, startup, req, bucket, thumbnailUrl, contents, lastGet >>

\* whether a blob is stored under a key
BlobExists(fileName) == \E e \in bucket : e.fileName = fileName

\* the metadata write resolves: a thumbnail updates the course document,
\* which Firestore accepts only for a document that exists; any other type
\* sets the content document; the handler answers 200
FirestoreOk(r) ==
    LET q == req[r]
        l == loc[r]
    IN  /\ pc[r] = "firestore"
        /\ IF q.type = "thumbnail"
           THEN /\ q.courseId \in CourseDocs
                /\ thumbnailUrl' = [thumbnailUrl EXCEPT ![q.courseId] = l.filePath]
                /\ UNCHANGED contents
           ELSE /\ contents' =
                     [contents EXCEPT ![<<q.courseId, SectionId(q), q.contentId>>] =
                         ContentData(q, l.filePath, l.serverDuration)]
                /\ UNCHANGED thumbnailUrl
        /\ calls' = [calls EXCEPT ![r].fsResult = "ok", ![r].written = l.filePath,
                                  ![r].blobAtWrite = BlobExists(l.filePath)]
        /\ Respond(r, SuccessResp(q.type, l.filePath, l.serverDuration))
        /\ UNCHANGED << otherRoutes, b2, b2Authorized, startup, req, loc, bucket, lastGet >>

\* the guard of the cleanup: a file version id was captured
CleanupNeeded(fileId) == ~Falsy(fileId)

\* a cleanup that names the key but not the version that was uploaded
DeleteArgsNoVersion(l) == [fileName |-> l.filePath, fileId |-> Undefined]

\* the arguments of the compensating b2.deleteFileVersion
DeleteArgs(l) == [fileName |-> l.filePath, fileId |-> l.fileId]

\* the 500 that reports the metadata failure
FirestoreWriteFailed(r) ==
    Respond(r, ErrorResp(500, "Firestore write failed", "firestore"))

\* why a metadata write rejects: "notFound" for the update of a course
\* document that does not exist, "failed" for any other failure
Rejection(q) ==
    IF q.type = "thumbnail" /\ q.courseId \notin CourseDocs THEN "notFound" ELSE "failed"

\* the metadata write rejects (an update of a missing course document always
\* does): the handler calls b2.deleteFileVersion when it captured a file id,
\* and answers 500 at once when it did not
FirestoreFailed(r) ==
    /\ pc[r] = "firestore"
    /\ IF CleanupNeeded(loc[r].fileId)
       THEN /\ pc' = [pc EXCEPT ![r] = "deleteFileVersion"]
            /\ calls' = [calls EXCEPT ![r].fsResult = Rejection(req[r]),
                                      ![r].deletes = @ \cup {DeleteArgs(loc[r])}]
            /\ UNCHANGED resp
       ELSE /\ calls' = [calls EXCEPT ![r].fsResult = Rejection(req[r])]
            /\ FirestoreWriteFailed(r)
    /\ UNCHANGED << otherRoutes, b2, b2Authorized, startup, req, loc, bucket, thumbnailUrl, contents,
                    lastGet >>

\* b2.deleteFileVersion resolves: that file version is gone
DeleteOk(r) ==
    /\ pc[r] = "deleteFileVersion"
    /\ b2Authorized
    /\ bucket' = bucket \ {DeleteArgs(loc[r])}
    /\ FirestoreWriteFailed(r)
    /\ UNCHANGED << otherRoutes, b2, b2Authorized, startup, req, loc, calls, thumbnailUrl, contents,
                    lastGet >>

\* a cleanup without its own try: the rejection of b2.deleteFileVersion
\* reaches the outer catch
DeleteFailedRethrown(r) ==
    /\ pc[r] = "deleteFileVersion"
    /\ UploadFailed(r, "deleteFileVersion")
    /\ UNCHANGED << otherRoutes, b2, b2Authorized, startup, req, loc, calls, bucket, thumbnailUrl,
                    contents, lastGet >>

\* b2.deleteFileVersion rejects: the error is logged
DeleteFailed(r) ==
    /\ pc[r] = "deleteFileVersion"
    /\ FirestoreWriteFailed(r)
    /\ UNCHANGED << otherRoutes, b2, b2Authorized, startup, req, loc, calls, bucket, thumbnailUrl,
                    contents, lastGet >>

(***************************************************************************)
(* GET /course/:id                                                         *)
(***************************************************************************)
\* whether the identifier `doc` read by the handler has a binding in its
\* scope: it has none (the snapshot is named courseDoc), so evaluating
\* doc.data() throws a ReferenceError
DocInScope == FALSE

\* the content entries of the tree the handler builds: for each section
\* document of the course, its content documents with their ids
CourseTree(c) ==
    { [section |-> p[2], id |-> p[3], type |-> contents[p].type,
       backblazePath |-> contents[p].backblazePath] :
        p \in {pp \in ContentPaths :
                  pp[1] = c /\ <<pp[1], pp[2]>> \in SectionDocs /\ contents[pp].exists} }

\* the requests whose upload has been answered 200
Succeeded == {r \in Reqs : pc[r] = "done" /\ resp[r].status = 200}

\* GET /course/:id: 404 for a course without a document, else the handler
\* reads doc.data()
GetCourse(c) ==
    /\ lastGet' =
         IF c \notin CourseDocs
         THEN [course |-> c, status |-> 404, found |-> {}, after |-> Succeeded]
         ELSE IF ~DocInScope
         THEN [course |-> c, status |-> 500, found |-> {}, after |-> Succeeded]
         ELSE [course |-> c, status |-> 200, found |-> CourseTree(c), after |-> Succeeded]
    /\ UNCHANGED << otherRoutes, b2, b2Authorized, startup, pc, req, loc, resp, calls, bucket,
                    thumbnailUrl, contents >>

(***************************************************************************)
(* GET /file-url                                                           *)
(***************************************************************************)
\* req.query.file: absent, empty, or an object key
FileQueries == {Undefined, "", "videos/vid_a.mp4", "pdfs/pdf_b.pdf"}

\* process.env.BUCKET_NAME
BucketName == "bucket"

\* data.downloadUrl of a Backblaze response: absent, or the host of the account
DownloadHosts == {Undefined, "https://f001.backblazeb2.com", "https://f002.backblazeb2.com"}

DefaultDownloadUrl == "https://f000.backblazeb2.com"

ValidDurationInSeconds == 3600

\* a download authorization for every key of the bucket
DownloadAuthorizationArgsWholeBucket(filePath) ==
    [fileNamePrefix |-> "", validDurationInSeconds |-> ValidDurationInSeconds]

\* the arguments of b2.getDownloadAuthorization (bucketId is the one bucket)
DownloadAuthorizationArgs(filePath) ==
    [fileNamePrefix |-> filePath, validDurationInSeconds |-> ValidDurationInSeconds]

\* response.data.authorizationToken: the token Backblaze issues is scoped to
\* the prefix and the validity it was asked for
AuthorizationToken(args) ==
    "token(" \o args.fileNamePrefix \o "," \o ToString(args.validDurationInSeconds) \o ")"

\* response.data.downloadUrl || authResponse.data.downloadUrl || default
DownloadUrl(responseUrl, authUrl) ==
    IF ~Falsy(responseUrl) THEN responseUrl
    ELSE IF ~Falsy(authUrl) THEN authUrl
    ELSE DefaultDownloadUrl

SignedUrl(downloadUrl, filePath, authorizationToken) ==
    downloadUrl \o "/file/" \o BucketName \o "/" \o filePath
        \o "?Authorization=" \o authorizationToken

\* the catch of the route
SignedUrlFailed(f, message) ==
    [f EXCEPT !.pc = "done", !.status = 500, !.error = "Failed to generate signed URL",
              !.details = message]

\* a request arrives: 400 when the token or the file parameter is missing,
\* otherwise verifyIdToken is called
FileUrlDispatch ==
    /\ fileUrl.pc = "idle"
    /\ \E h \in Headers, file \in FileQueries :
         LET f == [fileUrl EXCEPT !.authorization = h, !.file = file]
         IN  fileUrl' =
               IF Falsy(IdToken(h)) \/ Falsy(file)
               THEN [f EXCEPT !.pc = "done", !.status = 400,
                              !.error = "Missing idToken or filePath"]
               ELSE [f EXCEPT !.pc = "verifyIdToken", !.verify = "called"]
    /\ UNCHANGED << twoFile, b2, b2Authorized, startup, pc, req, loc, resp, calls, bucket,
                    thumbnailUrl, contents, lastGet >>

\* verifyIdToken rejects
FileUrlVerifyRejected ==
    /\ fileUrl.pc = "verifyIdToken"
    /\ TokenUid(IdToken(fileUrl.authorization)) = Undefined
    /\ fileUrl' = SignedUrlFailed([fileUrl EXCEPT !.verify = "rejected"], "verifyIdToken")
    /\ UNCHANGED << twoFile, b2, b2Authorized, startup, pc, req, loc, resp, calls, bucket,
                    thumbnailUrl, contents, lastGet >>

\* verifyIdToken resolves and the handle is not null: b2.authorize() is called
FileUrlVerifyAccepted ==
    /\ fileUrl.pc = "verifyIdToken"
    /\ TokenUid(IdToken(fileUrl.authorization)) # Undefined
    /\ b2 # "null"
    /\ fileUrl' = [fileUrl EXCEPT !.pc = "authorize", !.verify = "ok", !.authorize = "called"]
    /\ UNCHANGED << twoFile, b2, b2Authorized, startup, pc, req, loc, resp, calls, bucket,
                    thumbnailUrl, contents, lastGet >>

\* verifyIdToken resolves and the handle is null: initializeB2() constructs
\* the handle and awaits its authorize()
FileUrlLazyInitStart ==
    /\ fileUrl.pc = "verifyIdToken"
    /\ TokenUid(IdToken(fileUrl.authorization)) # Undefined
    /\ b2 = "null"
    /\ b2' = "handle"
    /\ fileUrl' = [fileUrl EXCEPT !.pc = "initializeB2", !.verify = "ok", !.init = "started"]
    /\ UNCHANGED << twoFile, b2Authorized, startup, pc, req, loc, resp, calls, bucket,
                    thumbnailUrl, contents, lastGet >>

\* verifyIdToken resolves, the handle is null and the constructor throws
FileUrlLazyInitConstructorThrows ==
    /\ fileUrl.pc = "verifyIdToken"
    /\ TokenUid(IdToken(fileUrl.authorization)) # Undefined
    /\ b2 = "null"
    /\ fileUrl' = SignedUrlFailed([fileUrl EXCEPT !.verify = "ok", !.init = "failed"],
                                  "BackblazeB2")
    /\ UNCHANGED << twoFile, b2, b2Authorized, startup, pc, req, loc, resp, calls, bucket,
                    thumbnailUrl, contents, lastGet >>

\* the authorize() of the lazy initialisation resolves: b2.authorize() is
\* called once more by the route
FileUrlLazyAuthorized ==
    /\ fileUrl.pc = "initializeB2"
    /\ b2Authorized' = TRUE
    /\ fileUrl' = [fileUrl EXCEPT !.pc = "authorize", !.init = "ok", !.authorize = "called"]
    /\ UNCHANGED << twoFile, b2, startup, pc, req, loc, resp, calls, bucket, thumbnailUrl,
                    contents, lastGet >>

\* the authorize() of the lazy initialisation rejects: initializeB2 rethrows
FileUrlLazyAuthorizeFailed ==
    /\ fileUrl.pc = "initializeB2"
    /\ fileUrl' = SignedUrlFailed([fileUrl EXCEPT !.init = "failed"], "authorize")
    /\ UNCHANGED << twoFile, b2, b2Authorized, startup, pc, req, loc, resp, calls, bucket,
                    thumbnailUrl, contents, lastGet >>

\* b2.authorize() resolves: b2.getDownloadAuthorization is called for the
\* requested key
FileUrlAuthorized ==
    /\ fileUrl.pc = "authorize"
    /\ b2Authorized' = TRUE
    /\ \E host \in DownloadHosts :
         fileUrl' = [fileUrl EXCEPT !.pc = "getDownloadAuthorization",
                                    !.authorize = "ok", !.authDownloadUrl = host,
                                    !.getDownloadAuthorization = "called",
                                    !.args = DownloadAuthorizationArgs(fileUrl.file)]
    /\ UNCHANGED << twoFile, b2, startup, pc, req, loc, resp, calls, bucket, thumbnailUrl,
                    contents, lastGet >>

\* b2.authorize() rejects
FileUrlAuthorizeFailed ==
    /\ fileUrl.pc = "authorize"
    /\ fileUrl' = SignedUrlFailed([fileUrl EXCEPT !.authorize = "failed"], "authorize")
    /\ UNCHANGED << twoFile, b2, b2Authorized, startup, pc, req, loc, resp, calls, bucket,
                    thumbnailUrl, contents, lastGet >>

\* b2.getDownloadAuthorization resolves: res.json({ url: signedUrl })
FileUrlSigned ==
    /\ fileUrl.pc = "getDownloadAuthorization"
    /\ \E host \in DownloadHosts :
         fileUrl' = [fileUrl EXCEPT !.pc = "done", !.status = 200,
                                    !.getDownloadAuthorization = "ok",
                                    !.url = SignedUrl(DownloadUrl(host, fileUrl.authDownloadUrl),
                                                      fileUrl.file,
                                                      AuthorizationToken(fileUrl.args))]
    /\ UNCHANGED << twoFile, b2, b2Authorized, startup, pc, req, loc, resp, calls, bucket,
                    thumbnailUrl, contents, lastGet >>

\* b2.getDownloadAuthorization rejects
FileUrlDownloadAuthorizationFailed ==
    /\ fileUrl.pc = "getDownloadAuthorization"
    /\ fileUrl' = SignedUrlFailed([fileUrl EXCEPT !.getDownloadAuthorization = "failed"],
                                  "getDownloadAuthorization")
    /\ UNCHANGED << twoFile, b2, b2Authorized, startup, pc, req, loc, resp, calls, bucket,
                    thumbnailUrl, contents, lastGet >>

(***************************************************************************)
(* POST /upload of the two-file revisions                                  *)
(***************************************************************************)
\* progress values are counted in hundredths: 0.02, 0.5 and 1.0
ProgressStep == 2
VideoShare == 50
Complete == 100

\* the values of a body field: absent, empty, or given
FieldValues == {Undefined, "", "given"}

VideoPath == "vid_uuid.mp4"
ThumbnailPath == "thumb_uuid.jpg"

TwoFileRequests ==
    [ authorization : Headers, video : BOOLEAN, thumbnail : BOOLEAN,
      name : FieldValues, price : {Undefined, "10"}, description : {Undefined, "given"} ]

\* res.write(JSON.stringify({ progress }) + '\n'): the value goes to the
\* stream, or, once the response was ended, is written after the end
Write(t, progress) ==
    IF t.ended
    THEN [t EXCEPT !.afterEnd = Append(@, progress)]
    ELSE [t EXCEPT !.written = Append(@, progress), !.headersSent = TRUE,
                   !.status = IF t.headersSent THEN @ ELSE 200]

\* the catch of the handler: a 500 when nothing was sent yet, otherwise the
\* error body ends the stream whose status line is already out; neither
\* branch clears an interval
TwoFileFailed(t, message) ==
    [t EXCEPT !.pc = "done", !.ended = TRUE, !.headersSent = TRUE,
              !.status = IF t.headersSent THEN @ ELSE 500,
              !.error = "Upload failed", !.details = message]

\* the body's files and fields are read and checked; the progress revision
\* then writes progress 0 and starts the video interval; b2.getUploadUrl is
\* called for the video
FilesAndFields(t) ==
    IF ~t.video \/ ~t.thumbnail
    THEN \* req.files['video'][0] or req.files['thumbnail'][0] throws
         TwoFileFailed([t EXCEPT !.checked = TRUE], "TypeError")
    ELSE IF Falsy(t.name) \/ Falsy(t.price) \/ Falsy(t.description)
    THEN [t EXCEPT !.pc = "done", !.ended = TRUE, !.headersSent = TRUE, !.status = 400,
                   !.checked = TRUE, !.error = "Missing required fields or files"]
    ELSE LET u == [t EXCEPT !.pc = "getUploadUrlVideo", !.checked = TRUE,
                            !.getUploadUrl = @ \cup {VideoPath}]
         IN  IF t.revision = "progress"
             THEN [Write(u, 0) EXCEPT !.videoInterval = TRUE, !.videoProgress = 0]
             ELSE u

\* a request arrives: 401 without a token, otherwise verifyIdToken is called
TwoFileDispatch ==
    /\ twoFile.pc = "idle"
    /\ \E q \in TwoFileRequests :
         LET t == [twoFile EXCEPT !.authorization = q.authorization, !.video = q.video,
                                  !.thumbnail = q.thumbnail, !.name = q.name,
                                  !.price = q.price, !.description = q.description]
         IN  twoFile' =
               IF Falsy(IdToken(q.authorization))
               THEN [t EXCEPT !.pc = "done", !.ended = TRUE, !.headersSent = TRUE,
                              !.status = 401, !.error = "Unauthorized"]
               ELSE [t EXCEPT !.pc = "verifyIdToken"]
    /\ UNCHANGED << fileUrl, b2, b2Authorized, startup, pc, req, loc, resp, calls, bucket,
                    thumbnailUrl, contents, lastGet >>

\* verifyIdToken rejects
TwoFileVerifyRejected ==
    /\ twoFile.pc = "verifyIdToken"
    /\ TokenUid(IdToken(twoFile.authorization)) = Undefined
    /\ twoFile' = TwoFileFailed(twoFile, "verifyIdToken")
    /\ UNCHANGED << fileUrl, b2, b2Authorized, startup, pc, req, loc, resp, calls, bucket,
                    thumbnailUrl, contents, lastGet >>

\* verifyIdToken resolves in the progress revision and the handle is not null
TwoFileVerifyAccepted ==
    /\ twoFile.pc = "verifyIdToken"
    /\ twoFile.revision = "progress"
    /\ TokenUid(IdToken(twoFile.authorization)) # Undefined
    /\ b2 # "null"
    /\ twoFile' = FilesAndFields(twoFile)
    /\ UNCHANGED << fileUrl, b2, b2Authorized, startup, pc, req, loc, resp, calls, bucket,
                    thumbnailUrl, contents, lastGet >>

\* verifyIdToken resolves in the progress revision and the handle is null:
\* initializeB2() constructs the handle and awaits its authorize()
TwoFileLazyInitStart ==
    /\ twoFile.pc = "verifyIdToken"
    /\ twoFile.revision = "progress"
    /\ TokenUid(IdToken(twoFile.authorization)) # Undefined
    /\ b2 = "null"
    /\ b2' = "handle"
    /\ twoFile' = [twoFile EXCEPT !.pc = "initializeB2"]
    /\ UNCHANGED << fileUrl, b2Authorized, startup, pc, req, loc, resp, calls, bucket,
                    thumbnailUrl, contents, lastGet >>

\* the same, and the constructor throws
TwoFileLazyInitConstructorThrows ==
    /\ twoFile.pc = "verifyIdToken"
    /\ twoFile.revision = "progress"
    /\ TokenUid(IdToken(twoFile.authorization)) # Undefined
    /\ b2 = "null"
    /\ twoFile' = TwoFileFailed(twoFile, "B2")
    /\ UNCHANGED << fileUrl, b2, b2Authorized, startup, pc, req, loc, resp, calls, bucket,
                    thumbnailUrl, contents, lastGet >>

\* the authorize() of the lazy initialisation resolves
TwoFileLazyAuthorized ==
    /\ twoFile.pc = "initializeB2"
    /\ b2Authorized' = TRUE
    /\ twoFile' = FilesAndFields(twoFile)
    /\ UNCHANGED << fileUrl, b2, startup, pc, req, loc, resp, calls, bucket, thumbnailUrl,
                    contents, lastGet >>

\* the authorize() of the lazy initialisation rejects
TwoFileLazyAuthorizeFailed ==
    /\ twoFile.pc = "initializeB2"
    /\ twoFile' = TwoFileFailed(twoFile, "authorize")
    /\ UNCHANGED << fileUrl, b2, b2Authorized, startup, pc, req, loc, resp, calls, bucket,
                    thumbnailUrl, contents, lastGet >>

\* verifyIdToken resolves in the earlier revision: b2.authorize() is called
TwoFileAuthorize ==
    /\ twoFile.pc = "verifyIdToken"
    /\ twoFile.revision = "earlier"
    /\ TokenUid(IdToken(twoFile.authorization)) # Undefined
    /\ twoFile' = [twoFile EXCEPT !.pc = "authorize"]
    /\ UNCHANGED << fileUrl, b2, b2Authorized, startup, pc, req, loc, resp, calls, bucket,
                    thumbnailUrl, contents, lastGet >>

\* the b2.authorize() of the request resolves
TwoFileAuthorized ==
    /\ twoFile.pc = "authorize"
    /\ b2Authorized' = TRUE
    /\ twoFile' = FilesAndFields(twoFile)
    /\ UNCHANGED << fileUrl, b2, startup, pc, req, loc, resp, calls, bucket, thumbnailUrl,
                    contents, lastGet >>

\* the b2.authorize() of the request rejects
TwoFileAuthorizeFailed ==
    /\ twoFile.pc = "authorize"
    /\ twoFile' = TwoFileFailed(twoFile, "authorize")
    /\ UNCHANGED << fileUrl, b2, b2Authorized, startup, pc, req, loc, resp, calls, bucket,
                    thumbnailUrl, contents, lastGet >>

\* b2.getUploadUrl resolves for the video: b2.uploadFile is called
VideoGetUploadUrlOk ==
    /\ twoFile.pc = "getUploadUrlVideo"
    /\ twoFile' = [twoFile EXCEPT !.pc = "uploadFileVideo", !.uploadFile = @ \cup {VideoPath}]
    /\ UNCHANGED << fileUrl, b2, b2Authorized, startup, pc, req, loc, resp, calls, bucket,
                    thumbnailUrl, contents, lastGet >>

\* b2.getUploadUrl rejects for the video
VideoGetUploadUrlFailed ==
    /\ twoFile.pc = "getUploadUrlVideo"
    /\ twoFile' = TwoFileFailed(twoFile, "getUploadUrl")
    /\ UNCHANGED << fileUrl, b2, b2Authorized, startup, pc, req, loc, resp, calls, bucket,
                    thumbnailUrl, contents, lastGet >>

\* b2.uploadFile resolves for the video: the progress revision clears the
\* video interval, writes 0.5 and starts the thumbnail interval;
\* b2.getUploadUrl is called for the thumbnail
VideoUploadOk ==
    /\ twoFile.pc = "uploadFileVideo"
    /\ LET u == [twoFile EXCEPT !.pc = "getUploadUrlThumbnail", !.stored = @ \cup {VideoPath},
                                !.getUploadUrl = @ \cup {ThumbnailPath}]
       IN  twoFile' =
             IF twoFile.revision = "progress"
             THEN [Write([u EXCEPT !.videoInterval = FALSE], VideoShare)
                     EXCEPT !.thumbnailInterval = TRUE, !.thumbnailProgress = VideoShare]
             ELSE u
    /\ UNCHANGED << fileUrl, b2, b2Authorized, startup, pc, req, loc, resp, calls, bucket,
                    thumbnailUrl, contents, lastGet >>

\* b2.uploadFile rejects for the video
VideoUploadFailed ==
    /\ twoFile.pc = "uploadFileVideo"
    /\ twoFile' = TwoFileFailed(twoFile, "uploadFile")
    /\ UNCHANGED << fileUrl, b2, b2Authorized, startup, pc, req, loc, resp, calls, bucket,
                    thumbnailUrl, contents, lastGet >>

\* b2.getUploadUrl resolves for the thumbnail: b2.uploadFile is called
ThumbnailGetUploadUrlOk ==
    /\ twoFile.pc = "getUploadUrlThumbnail"
    /\ twoFile' = [twoFile EXCEPT !.pc = "uploadFileThumbnail",
                                  !.uploadFile = @ \cup {ThumbnailPath}]
    /\ UNCHANGED << fileUrl, b2, b2Authorized, startup, pc, req, loc, resp, calls, bucket,
                    thumbnailUrl, contents, lastGet >>

\* b2.getUploadUrl rejects for the thumbnail
ThumbnailGetUploadUrlFailed ==
    /\ twoFile.pc = "getUploadUrlThumbnail"
    /\ twoFile' = TwoFileFailed(twoFile, "getUploadUrl")
    /\ UNCHANGED << fileUrl, b2, b2Authorized, startup, pc, req, loc, resp, calls, bucket,
                    thumbnailUrl, contents, lastGet >>

\* b2.uploadFile resolves for the thumbnail: the progress revision clears the
\* thumbnail interval, writes 1.0 and ends the stream with the two keys; the
\* earlier revision answers the two download URLs
ThumbnailUploadOk ==
    /\ twoFile.pc = "uploadFileThumbnail"
    /\ LET u == [twoFile EXCEPT !.stored = @ \cup {ThumbnailPath}]
       IN  twoFile' =
             IF twoFile.revision = "progress"
             THEN [Write([u EXCEPT !.thumbnailInterval = FALSE], Complete)
                     EXCEPT !.pc = "done", !.ended = TRUE,
                            !.videoUrl = VideoPath, !.thumbnailUrl = ThumbnailPath]
             ELSE [u EXCEPT !.pc = "done", !.ended = TRUE, !.headersSent = TRUE,
                            !.status = 200,
                            !.videoUrl = DefaultDownloadUrl \o "/file/" \o BucketName
                                             \o "/" \o VideoPath,
                            !.thumbnailUrl = DefaultDownloadUrl \o "/file/" \o BucketName
                                                 \o "/" \o ThumbnailPath]
    /\ UNCHANGED << fileUrl, b2, b2Authorized, startup, pc, req, loc, resp, calls, bucket,
                    thumbnailUrl, contents, lastGet >>

\* b2.uploadFile rejects for the thumbnail
ThumbnailUploadFailed ==
    /\ twoFile.pc = "uploadFileThumbnail"
    /\ twoFile' = TwoFileFailed(twoFile, "uploadFile")
    /\ UNCHANGED << fileUrl, b2, b2Authorized, startup, pc, req, loc, resp, calls, bucket,
                    thumbnailUrl, contents, lastGet >>

\* the callback of the video interval fires, 200 ms after the last time
VideoTick ==
    /\ twoFile.videoInterval
    /\ twoFile.videoProgress < VideoShare
    /\ LET p == IF twoFile.videoProgress + ProgressStep > VideoShare
                THEN VideoShare
                ELSE twoFile.videoProgress + ProgressStep
       IN  twoFile' = Write([twoFile EXCEPT !.videoProgress = p], p)
    /\ UNCHANGED << fileUrl, b2, b2Authorized, startup, pc, req, loc, resp, calls, bucket,
                    thumbnailUrl, contents, lastGet >>

\* the callback of the thumbnail interval fires
ThumbnailTick ==
    /\ twoFile.thumbnailInterval
    /\ twoFile.thumbnailProgress < Complete
    /\ LET p == IF twoFile.thumbnailProgress + ProgressStep > Complete
                THEN Complete
                ELSE twoFile.thumbnailProgress + ProgressStep
       IN  twoFile' = Write([twoFile EXCEPT !.thumbnailProgress = p], p)
    /\ UNCHANGED << fileUrl, b2, b2Authorized, startup, pc, req, loc, resp, calls, bucket,
                    thumbnailUrl, contents, lastGet >>

(***************************************************************************)
(* Specifications                                                          *)
(***************************************************************************)
\* the steps every request takes after it was dispatched
Handler(r, outcomes) ==
    \/ VerifyRejected(r)
    \/ VerifyAccepted(r)
    \/ LazyInitStart(r)
    \/ LazyInitConstructorThrows(r)
    \/ LazyAuthorized(r)
    \/ LazyAuthorizeFailed(r)
    \/ DurationExtracted(r, outcomes)
    \/ GetUploadUrlOk(r)
    \/ GetUploadUrlFailed(r)
    \/ UploadFileOk(r)
    \/ UploadFileFailed(r)
    \/ FirestoreOk(r)
    \/ FirestoreFailed(r)
    \/ DeleteOk(r)
    \/ DeleteFailed(r)

\* concurrent uploads and the startup initialisation
Next ==
    \/ StartupAuthorized
    \/ StartupAuthorizeFailed
    \/ \E r \in Reqs : Dispatch(r, ConcInputs)
    \/ \E r \in Reqs : Handler(r, ConcProbeOutcomes)

Spec == Init /\ [][Next]_vars

\* one request of every shape, the startup initialisation and reads
NextV ==
    \/ StartupAuthorized
    \/ StartupAuthorizeFailed
    \/ Dispatch(1, AllInputs)
    \/ Handler(1, ProbeOutcomes)
    \/ \E c \in Courses : GetCourse(c)

SpecV == Init /\ [][NextV]_vars

\* one upload whose every external call settles, on an event loop that runs
\* the continuation of every settled call
NextL ==
    \/ StartupAuthorized
    \/ StartupAuthorizeFailed
    \/ Dispatch(1, ConcInputs)
    \/ Handler(1, ProbeOutcomes)

SpecL == Init /\ [][NextL]_vars /\ WF_vars(Handler(1, ProbeOutcomes))

\* one request for a signed URL and the startup initialisation
NextF ==
    \/ StartupAuthorized
    \/ StartupAuthorizeFailed
    \/ FileUrlDispatch
    \/ FileUrlVerifyRejected
    \/ FileUrlVerifyAccepted
    \/ FileUrlLazyInitStart
    \/ FileUrlLazyInitConstructorThrows
    \/ FileUrlLazyAuthorized
    \/ FileUrlLazyAuthorizeFailed
    \/ FileUrlAuthorized
    \/ FileUrlAuthorizeFailed
    \/ FileUrlSigned
    \/ FileUrlDownloadAuthorizationFailed

SpecF == Init /\ [][NextF]_vars

\* one two-file upload, its timers, and the startup initialisation
NextT ==
    \/ StartupAuthorized
    \/ StartupAuthorizeFailed
    \/ TwoFileDispatch
    \/ TwoFileVerifyRejected
    \/ TwoFileVerifyAccepted
    \/ TwoFileLazyInitStart
    \/ TwoFileLazyInitConstructorThrows
    \/ TwoFileLazyAuthorized
    \/ TwoFileLazyAuthorizeFailed
    \/ TwoFileAuthorize
    \/ TwoFileAuthorized
    \/ TwoFileAuthorizeFailed
    \/ VideoGetUploadUrlOk
    \/ VideoGetUploadUrlFailed
    \/ VideoUploadOk
    \/ VideoUploadFailed
    \/ ThumbnailGetUploadUrlOk
    \/ ThumbnailGetUploadUrlFailed
    \/ ThumbnailUploadOk
    \/ ThumbnailUploadFailed
    \/ VideoTick
    \/ ThumbnailTick

SpecT == InitT /\ [][NextT]_vars

(***************************************************************************)
(* Properties                                                              *)
(***************************************************************************)
Done(r) == pc[r] = "done"

\* the object-store upload of a request has failed: getUploadUrl was called
\* and neither call is pending, yet no blob was stored
UploadFailedFor(r) ==
    calls[r].getUploadUrl /\ ~calls[r].stored /\ pc[r] \notin {"getUploadUrl", "uploadFile"}

\* the metadata write of a request has failed after its upload succeeded
WriteFailedAfterUpload(r) == calls[r].stored /\ calls[r].fsResult \in {"failed", "notFound"}

\* C1 as stated: whenever the metadata write fails after the upload of the
\* request succeeded, a deleteFileVersion call has been issued for exactly the
\* file version the request uploaded, whatever the upload response contained
C1_DeleteAlwaysIssued ==
    \A r \in Reqs : WriteFailedAfterUpload(r) => calls[r].deletes = {StoredVersion(r)}

\* C1 amended: whenever the metadata write fails after the upload of the
\* request succeeded, exactly one deleteFileVersion call has been issued, for
\* the key and file version the request uploaded, provided the upload response
\* carried the file id; when the response carried none, no delete is issued.
\* No delete is issued in any other case.
C1_DeleteIssuedWhenFileIdCaptured ==
    \A r \in Reqs :
        /\ WriteFailedAfterUpload(r) =>
              IF loc[r].fileId # Undefined
              THEN calls[r].deletes = {StoredVersion(r)}
              ELSE calls[r].deletes = {}
        /\ ~WriteFailedAfterUpload(r) => calls[r].deletes = {}

\* a pdf whose metadata write failed after its upload and whose delete was
\* issued for the version it uploaded
C1_Witness ==
    \E r \in Reqs :
        /\ WriteFailedAfterUpload(r)
        /\ req[r].type = "pdf"
        /\ calls[r].deletes = {StoredVersion(r)}
        /\ Done(r)

\* C2: when the object-store upload of a request fails (getUploadUrl or
\* uploadFile throws), the request is answered with a failure and no metadata
\* write, neither a course update nor a content-document set, is issued or
\* applied for it
C2_NoMetadataWriteAfterUploadFailure ==
    \A r \in Reqs :
        UploadFailedFor(r) =>
            /\ Done(r)
            /\ resp[r].status = 500
            /\ resp[r].error = "Backblaze upload failed"
            /\ calls[r].fsWrite = "none"
            /\ calls[r].written = Undefined
            /\ \A p \in ContentPaths : contents[p].backblazePath # loc[r].filePath
            /\ \A c \in CourseDocs : thumbnailUrl[c] # loc[r].filePath

\* a request whose uploadFile threw after getUploadUrl had resolved
C2_Witness ==
    \E r \in Reqs :
        UploadFailedFor(r) /\ calls[r].uploadFile /\ resp[r].details = "uploadFile"

\* C3 as stated: a GET /course/C made after a video upload for course C,
\* section S, content X was answered 200 returns 200 with a tree that holds,
\* under S, an entry with id X, type video and the key the upload returned
C3_RoundTrip ==
    \A r \in lastGet.after :
        (req[r].type = "video" /\ req[r].courseId = lastGet.course) =>
            /\ lastGet.status = 200
            /\ [section |-> SectionId(req[r]), id |-> req[r].contentId, type |-> "video",
                backblazePath |-> resp[r].fileUrl] \in lastGet.found


\* the identity verifier accepted the token of a request
Verified(r) == loc[r].userId # Undefined

\* the request carries type, courseId, uploader, a file and, unless it is a
\* thumbnail, a contentId
RequiredPresent(q) ==
    /\ q.type # Undefined /\ q.courseId # Undefined /\ q.uploader # Undefined
    /\ q.file.present
    /\ (q.type = "thumbnail" \/ q.contentId # Undefined)

\* no object-store write was attempted for a request
NoObjectStoreWrite(r) ==
    ~calls[r].getUploadUrl /\ ~calls[r].uploadFile /\ ~calls[r].stored

\* C4 as stated: every request whose uploader differs from the uid of its
\* verified token is answered 403 and makes no object-store write, whatever
\* its other fields are
C4_MismatchAlways403 ==
    \A r \in Reqs :
        (Done(r) /\ Verified(r) /\ req[r].uploader # loc[r].userId) =>
            (resp[r].status = 403 /\ NoObjectStoreWrite(r))

\* C4 amended: a request whose uploader differs from the uid of its verified
\* token never makes an object-store write; it is answered 403 when it carries
\* all required fields and the session-handle check did not throw, 400
\* (missing fields) when a required field is missing, and 500 when the lazy
\* initialisation threw
C4_Mismatch403AfterFieldCheck ==
    \A r \in Reqs :
        (Verified(r) /\ req[r].uploader # loc[r].userId) =>
            /\ NoObjectStoreWrite(r)
            /\ Done(r) =>
                 resp[r].status =
                    IF calls[r].init = "failed" THEN 500
                    ELSE IF ~RequiredPresent(req[r]) THEN 400
                    ELSE 403

\* a complete request with a foreign uploader, answered 403
C4_Witness ==
    \E r \in Reqs :
        /\ Done(r) /\ Verified(r) /\ req[r].uploader = "u2"
        /\ RequiredPresent(req[r])
        /\ resp[r].status = 403

\* the whitelist the claim gives for each type
ClaimedExtensions(type) ==
    CASE type = "video" -> {".mp4", ".mov", ".avi"}
      [] type = "pdf" -> {".pdf"}
      [] type = "thumbnail" -> {".jpg", ".jpeg", ".png"}

\* the file of a request has an extension outside the whitelist of its type
BadExtension(q) ==
    /\ q.type \in {"video", "pdf", "thumbnail"}
    /\ q.file.present
    /\ FileExtension(q.file.originalname) \notin ClaimedExtensions(q.type)

\* C5 as stated: every request whose file extension is not in the whitelist
\* of its declared type is answered 400 and makes no object-store write
C5_BadExtensionAlways400 ==
    \A r \in Reqs :
        (Done(r) /\ BadExtension(req[r])) => (resp[r].status = 400 /\ NoObjectStoreWrite(r))

\* C5 amended: a request whose file extension is not in the whitelist of its
\* declared type never makes an object-store write, and it is answered 400
\* whenever it reaches the validation: its bearer token was verified, the
\* session-handle check did not throw, its required fields are present and
\* its uploader is the caller
C5_BadExtension400WhenValidated ==
    \A r \in Reqs :
        BadExtension(req[r]) =>
            /\ NoObjectStoreWrite(r)
            /\ ~calls[r].extract
            /\ ( /\ Done(r) /\ Verified(r) /\ calls[r].init # "failed"
                 /\ RequiredPresent(req[r]) /\ req[r].uploader = loc[r].userId )
               => resp[r].status = 400

\* a pdf request that carries a video file, answered 400 after validation
C5_Witness ==
    \E r \in Reqs :
        /\ Done(r) /\ Verified(r) /\ req[r].uploader = loc[r].userId
        /\ req[r].type = "pdf"
        /\ FileExtension(req[r].file.originalname) = ".mp4"
        /\ resp[r].status = 400

\* C6: a missing bearer token, a token the identity verifier rejects, and an
\* uploader mismatch (of a request that is otherwise complete and whose
\* session-handle check did not throw) are each answered 401 or 403, and
\* cause neither an object-store nor a metadata write
C6_AuthErrorsAre401Or403 ==
    \A r \in Reqs :
        ( /\ Done(r)
          /\ \/ IdToken(req[r].authorization) = Undefined
             \/ TokenUid(IdToken(req[r].authorization)) = Undefined
             \/ /\ Verified(r) /\ req[r].uploader # loc[r].userId
                /\ RequiredPresent(req[r]) /\ calls[r].init # "failed" )
        => /\ resp[r].status \in {401, 403}
           /\ NoObjectStoreWrite(r)
           /\ calls[r].fsWrite = "none"

\* C7: every request that got past the session-handle check makes its
\* object-store calls on a handle whose authorization has completed
C7_CallsOnAuthorizedHandle ==
    \A r \in Reqs : calls[r].getUploadUrl => calls[r].handleAuthorized

\* a thumbnail upload without contentId that is otherwise valid
ThumbnailRequest(q) ==
    /\ q.type = "thumbnail" /\ q.contentId = Undefined
    /\ q.courseId # Undefined /\ q.file.present
    /\ FileExtension(q.file.originalname) \in {".jpg", ".jpeg", ".png"}
    /\ TokenUid(IdToken(q.authorization)) # Undefined
    /\ q.uploader = TokenUid(IdToken(q.authorization))

\* no collaborator failed for a reason of its own: the lazy initialisation,
\* the object-store upload, and the metadata store other than by rejecting
\* the update of a missing document
NoOutage(r) ==
    calls[r].init # "failed" /\ ~UploadFailedFor(r) /\ calls[r].fsResult # "failed"

\* no content document was set for a request
NoContentDocument(r) ==
    /\ calls[r].fsWrite # "set"
    /\ \A p \in ContentPaths : contents[p].backblazePath # loc[r].filePath

\* C8 as stated: such a thumbnail upload is answered 200 with thumbnailUrl and
\* sets the thumbnail key of the course to the returned key, for every course
\* id including one without a course record, and writes no content document
C8_ThumbnailSucceedsForEveryCourse ==
    \A r \in Reqs :
        (Done(r) /\ ThumbnailRequest(req[r]) /\ NoOutage(r)) =>
            /\ resp[r].status = 200
            /\ resp[r].thumbnailUrl = loc[r].filePath
            /\ req[r].courseId \in CourseDocs
            /\ thumbnailUrl[req[r].courseId] = loc[r].filePath
            /\ NoContentDocument(r)

\* C8 amended: such a thumbnail upload writes no content document; for a
\* course that has a record it is answered 200 with thumbnailUrl and sets the
\* thumbnail key of the course to the returned key; for a course id without a
\* record the update is rejected and the answer is 500 'Firestore write
\* failed', with no thumbnail key written
C8_ThumbnailSucceedsForExistingCourse ==
    \A r \in Reqs :
        (Done(r) /\ ThumbnailRequest(req[r]) /\ NoOutage(r)) =>
            /\ NoContentDocument(r)
            /\ IF req[r].courseId \in CourseDocs
               THEN /\ resp[r].status = 200
                    /\ resp[r].thumbnailUrl = loc[r].filePath
                    /\ thumbnailUrl[req[r].courseId] = loc[r].filePath
               ELSE /\ resp[r].status = 500
                    /\ resp[r].error = "Firestore write failed"
                    /\ calls[r].written = Undefined

\* a thumbnail upload without contentId that set the key of course c1
C8_Witness ==
    \E r \in Reqs :
        /\ Done(r) /\ ThumbnailRequest(req[r]) /\ resp[r].status = 200
        /\ thumbnailUrl["c1"] = loc[r].filePath

\* C9: once the extractor has run for a video, whatever its outcome, the
\* request has gone on to the object-store upload; after a temp-file write
\* failure, an ffprobe error or a missing or non-numeric duration the duration
\* is '00:00'; and every 200 for a video carries a duration, equal to the one
\* in the content record the request stored
C9_DurationFailureNeverFailsUpload ==
    \A r \in Reqs :
        /\ (calls[r].extract /\ pc[r] # "getVideoDuration") =>
              /\ calls[r].getUploadUrl
              /\ calls[r].probe.kind \in {"writeFail", "probeErr", "noDuration", "nanDuration"}
                    => loc[r].serverDuration = "00:00"
        /\ (Done(r) /\ resp[r].status = 200 /\ req[r].type = "video") =>
              /\ resp[r].duration # Undefined
              /\ resp[r].duration =
                    contents[<<req[r].courseId, SectionId(req[r]), req[r].contentId>>].duration

\* a video answered 200 with '00:00' after ffprobe reported an error
C9_Witness ==
    \E r \in Reqs :
        /\ Done(r) /\ resp[r].status = 200
        /\ calls[r].probe.kind = "probeErr"
        /\ resp[r].duration = "00:00"

\* C10: every metadata write that was applied found the blob of its key in
\* the object store, and every key a content document or a course thumbnail
\* holds is the key of a request whose upload had completed
C10_WrittenKeysHaveBlobs ==
    /\ \A r \in Reqs :
          calls[r].fsResult = "ok" => (calls[r].stored /\ calls[r].blobAtWrite)
    /\ \A p \in ContentPaths :
          contents[p].exists =>
             \E r \in Reqs : calls[r].stored /\ loc[r].filePath = contents[p].backblazePath
    /\ \A c \in CourseDocs :
          thumbnailUrl[c] # Undefined =>
             \E r \in Reqs : calls[r].stored /\ loc[r].filePath = thumbnailUrl[c]

\* one request wrote its record while the blob of another had already been
\* removed by that request's compensating delete
C10_Witness ==
    \E r1, r2 \in Reqs :
        /\ r1 # r2
        /\ calls[r1].stored /\ Done(r1) /\ StoredVersion(r1) \notin bucket
        /\ calls[r2].fsResult = "ok" /\ calls[r2].blobAtWrite


\* the key a 200 response carries: thumbnailUrl for a thumbnail, fileUrl for
\* a video or a pdf
ReturnedKey(r) ==
    IF req[r].type = "thumbnail" THEN resp[r].thumbnailUrl ELSE resp[r].fileUrl

\* the prefix the claim gives each type
ClaimedPrefix(type) ==
    CASE type = "video" -> "videos/vid_"
      [] type = "pdf" -> "pdfs/pdf_"
      [] type = "thumbnail" -> "thumbnails/thumb_"

\* the lower-cased extension of each accepted file name
ClaimedExtension(originalname) ==
    CASE originalname = <<"c", ".", "m", "p", "4">> -> ".mp4"
      [] originalname = <<"C", ".", "M", "O", "V">> -> ".mov"
      [] originalname = <<"c", ".", "a", "v", "i">> -> ".avi"
      [] originalname = <<"d", ".", "p", "d", "f">> -> ".pdf"
      [] originalname = <<"p", ".", "j", "p", "g">> -> ".jpg"
      [] originalname = <<"p", ".", "j", "p", "e", "g">> -> ".jpeg"
      [] originalname = <<"p", ".", "P", "n", "g">> -> ".png"
      [] OTHER -> "?"

\* C11: the fileUrl (video, pdf) or thumbnailUrl (thumbnail) of a 200
\* response is the key under which the blob of the request was uploaded and
\* which the metadata record it wrote references, and the key is the prefix
\* of the declared type, the id of the request and the lower-cased extension
\* of the uploaded file name
C11_ResponseCarriesStorageKey ==
    \A r \in Reqs :
        (Done(r) /\ resp[r].status = 200) =>
            /\ ReturnedKey(r) # Undefined
            /\ (req[r].type = "thumbnail") = (resp[r].fileUrl = Undefined)
            /\ (req[r].type # "thumbnail") = (resp[r].thumbnailUrl = Undefined)
            /\ calls[r].stored
            /\ StoredVersion(r).fileName = ReturnedKey(r)
            /\ \E e \in bucket : e.fileName = ReturnedKey(r)
            /\ calls[r].written = ReturnedKey(r)
            /\ IF req[r].type = "thumbnail"
               THEN thumbnailUrl[req[r].courseId] = ReturnedKey(r)
               ELSE contents[<<req[r].courseId, SectionId(req[r]), req[r].contentId>>]
                        .backblazePath = ReturnedKey(r)
            /\ ReturnedKey(r) =
                  ClaimedPrefix(req[r].type) \o Uuid(r)
                     \o ClaimedExtension(req[r].file.originalname)

\* a video uploaded as C.MOV, answered 200 with a key that ends in .mov
C11_Witness ==
    \E r \in Reqs :
        /\ Done(r) /\ resp[r].status = 200
        /\ req[r].file.originalname = <<"C", ".", "M", "O", "V">>
        /\ resp[r].fileUrl = "videos/vid_" \o Uuid(r) \o ".mov"


\* the metadata write of a request was rejected
WriteRejected(r) == calls[r].fsResult \in {"failed", "notFound"}

\* C13: once the metadata write of a request has failed, the request is
\* answered 500 'Firestore write failed' with the message of the metadata
\* error, whether deleteFileVersion resolved, rejected or was not attempted;
\* the outcome of the delete changes neither status nor body, and the outer
\* 'Upload failed' handler is not reached
C13_MetadataFailureReported ==
    \A r \in Reqs :
        WriteRejected(r) =>
            /\ pc[r] \in {"deleteFileVersion", "done"}
            /\ Done(r) =>
                 /\ resp[r].status = 500
                 /\ resp[r].error = "Firestore write failed"
                 /\ resp[r].details = "firestore"
                 /\ resp[r].fileUrl = Undefined
                 /\ resp[r].thumbnailUrl = Undefined
                 /\ resp[r].duration = Undefined

\* a request whose delete was issued and rejected (the blob is still stored),
\* answered 500 'Firestore write failed'
C13_Witness ==
    \E r \in Reqs :
        /\ Done(r) /\ WriteRejected(r)
        /\ calls[r].deletes # {}
        /\ StoredVersion(r) \in bucket
        /\ resp[r].error = "Firestore write failed"


\* the request was answered by the validation section
RejectedByValidation(r) == Done(r) /\ resp[r].status \in {400, 401, 403}

\* C14: a request answered 400, 401 or 403 has run no duration extraction,
\* has asked for no upload URL, uploaded nothing and deleted nothing, has
\* issued no metadata write, and the object store and the metadata store are
\* as they were before it
C14_ValidationPrecedesEffects ==
    \A r \in Reqs :
        RejectedByValidation(r) =>
            /\ ~calls[r].extract
            /\ calls[r].probe.kind = "none"
            /\ NoObjectStoreWrite(r)
            /\ calls[r].deletes = {}
            /\ calls[r].fsWrite = "none"
            /\ bucket = {}
            /\ thumbnailUrl = [c \in CourseDocs |-> Undefined]
            /\ contents = [p \in ContentPaths |-> NoDoc]

\* a video upload with a token that verifies, refused for its extension
C14_Witness ==
    \E r \in Reqs :
        /\ RejectedByValidation(r)
        /\ Verified(r)
        /\ req[r].type = "video"
        /\ resp[r].error = "Invalid video format"


\* a response has been sent for the request
Answered(r) == resp[r] # NoResp

\* C15: a request that was received is eventually answered, whatever the
\* outcomes of its external calls; a response is sent exactly when the
\* handler returns, and once sent it is never replaced by a second one
C15_ExactlyOneResponse ==
    /\ \A r \in Reqs : (pc[r] # "idle") ~> Done(r)
    /\ [](\A r \in Reqs : Answered(r) <=> Done(r))
    /\ [][\A r \in Reqs : Answered(r) => resp'[r] = resp[r]]_vars

\* a video upload answered after a lazy initialisation, the extraction, the
\* upload, a rejected metadata write and the compensating delete
C15_Witness ==
    \E r \in Reqs :
        /\ Done(r) /\ Answered(r)
        /\ calls[r].init = "started"
        /\ calls[r].extract
        /\ calls[r].uploadFile
        /\ WriteRejected(r)
        /\ calls[r].deletes # {}


\* the route called neither the identity verifier nor Backblaze
NoExternalCall(f) ==
    /\ f.verify = "none" /\ f.init = "none" /\ f.authorize = "none"
    /\ f.getDownloadAuthorization = "none"

\* a call the route awaited was rejected
DownstreamFailure(f) ==
    \/ f.verify = "rejected"
    \/ f.init = "failed"
    \/ f.authorize = "failed"
    \/ f.getDownloadAuthorization = "failed"

\* C12: GET /file-url answers 400 without any external call when the token
\* or the file parameter is missing; answers 500 without a url when the token
\* is rejected or authorize or getDownloadAuthorization fails; asks for a
\* download authorization only after the token was verified; and a 200
\* carries host/file/<bucket>/<key>?Authorization=<token>, the token being the
\* one issued for that key with a validity of 3600 seconds
C12_FileUrl ==
    LET f == fileUrl
    IN  /\ (f.pc # "idle" /\ (Falsy(IdToken(f.authorization)) \/ Falsy(f.file))) =>
              /\ f.pc = "done" /\ f.status = 400 /\ f.url = Undefined
              /\ NoExternalCall(f)
        /\ DownstreamFailure(f) =>
              f.pc = "done" /\ f.status = 500 /\ f.url = Undefined
        /\ f.getDownloadAuthorization # "none" => f.verify = "ok"
        /\ f.status = 200 =>
              /\ f.args = [fileNamePrefix |-> f.file, validDurationInSeconds |-> 3600]
              /\ \E host \in (DownloadHosts \ {Undefined}) \cup {DefaultDownloadUrl} :
                   f.url = host \o "/file/" \o BucketName \o "/" \o f.file \o "?Authorization="
                               \o AuthorizationToken([fileNamePrefix |-> f.file,
                                                      validDurationInSeconds |-> 3600])

\* a signed URL was returned after a lazy initialisation of the session
C12_Witness ==
    /\ fileUrl.pc = "done" /\ fileUrl.status = 200
    /\ fileUrl.init = "ok"
    /\ fileUrl.file = "videos/vid_a.mp4"
    /\ fileUrl.url = "https://f000.backblazeb2.com/file/bucket/videos/vid_a.mp4?Authorization=token(videos/vid_a.mp4,3600)"


\* every value the handler and its timers wrote, in the order of the writes
AllWritten == twoFile.written \o twoFile.afterEnd

\* C16: the progress values written are non-decreasing, stay at or below 0.5
\* until the video is stored, never exceed 1.0, and nothing is written once
\* the response was ended, whether by the final result or by an error
C16_ProgressWrites ==
    /\ \A i \in 1..(Len(AllWritten) - 1) : AllWritten[i] <= AllWritten[i + 1]
    /\ VideoPath \notin twoFile.stored =>
          \A i \in 1..Len(AllWritten) : AllWritten[i] <= 50
    /\ \A i \in 1..Len(AllWritten) : AllWritten[i] <= 100
    /\ twoFile.afterEnd = <<>>

\* the part of C16 about the values alone
C16_ValuesBounded ==
    /\ \A i \in 1..(Len(AllWritten) - 1) : AllWritten[i] <= AllWritten[i + 1]
    /\ VideoPath \notin twoFile.stored =>
          \A i \in 1..Len(AllWritten) : AllWritten[i] <= 50
    /\ \A i \in 1..Len(AllWritten) : AllWritten[i] <= 100

\* the request lacks one of the two files or one of the three fields
LacksFileOrField(t) ==
    ~t.video \/ ~t.thumbnail \/ Falsy(t.name) \/ Falsy(t.price) \/ Falsy(t.description)

\* C17: a request whose token verified and whose session is available, and
\* which lacks the video, the thumbnail, name, price or description, is
\* answered 400 'Missing required fields or files' with no object-store
\* upload made for it
C17_MissingAnswered400 ==
    (twoFile.checked /\ LacksFileOrField(twoFile)) =>
        /\ twoFile.pc = "done"
        /\ twoFile.status = 400
        /\ twoFile.error = "Missing required fields or files"
        /\ twoFile.getUploadUrl = {} /\ twoFile.uploadFile = {} /\ twoFile.stored = {}

\* the part of C17 about requests that carry both files
C17_MissingFieldAnswered400 ==
    (twoFile.checked /\ twoFile.video /\ twoFile.thumbnail /\ LacksFileOrField(twoFile)) =>
        /\ twoFile.pc = "done"
        /\ twoFile.status = 400
        /\ twoFile.error = "Missing required fields or files"
        /\ twoFile.getUploadUrl = {} /\ twoFile.uploadFile = {} /\ twoFile.stored = {}

====
